---- MODULE Spec2Model ----
(***************************************************************************)
(* A model of the lexical primitives of utils/peek_until.rs (the escape    *)
(* decoder peek_escape and the identifier scanner                          *)
(* peek_ident_no_interpolation with its body loop) and of the reflection   *)
(* builtins get-function / call of builtin/meta.rs.                        *)
(*                                                                         *)
(* Characters are their Unicode codepoints.  A token at index i (counted   *)
(* from 0) has the position span <<i, i+1>>; spans are pairs <<lo, hi>>.   *)
(***************************************************************************)
EXTENDS Integers, Sequences, FiniteSets, TLC

\* ------------------------------------------------------------------ bounds

\* longest input handed to the identifier scanner
MaxLen == 5
\* longest free-form input handed to the escape decoder
MaxEscLen == 3
\* longest run of hex digits handed to the escape decoder
MaxHexRun == 7

\* ------------------------------------------------------ character classes

None == -1

Newline == 10
Space == 32
Dash == 45
Dot == 46
Backslash == 92
Underscore == 95

\* char::is_ascii_digit
IsAsciiDigit(c) == c >= 48 /\ c <= 57

\* char::is_ascii_hexdigit
IsAsciiHexdigit(c) ==
    \/ c >= 48 /\ c <= 57
    \/ c >= 65 /\ c <= 70
    \/ c >= 97 /\ c <= 102

\* char::is_whitespace (the Unicode White_Space property)
IsWhitespace(c) ==
    \/ c >= 9 /\ c <= 13
    \/ c = 32
    \/ c = 133
    \/ c = 160
    \/ c = 5760
    \/ c >= 8192 /\ c <= 8202
    \/ c = 8232
    \/ c = 8233
    \/ c = 8239
    \/ c = 8287
    \/ c = 12288

\* is_name_start: ASCII letter, '_', or any codepoint >= 0x80
is_name_start(c) ==
    \/ c >= 65 /\ c <= 90
    \/ c >= 97 /\ c <= 122
    \/ c = Underscore
    \/ c >= 128

\* is_name: is_name_start, ASCII digit or '-'
is_name(c) == is_name_start(c) \/ IsAsciiDigit(c) \/ c = Dash

\* as_hex: one ASCII hex digit to its value 0..15
as_hex(c) ==
    IF c >= 48 /\ c <= 57 THEN c - 48
    ELSE IF c >= 97 /\ c <= 102 THEN c - 87
    ELSE c - 55

\* hex_char_for: 0..15 to its lowercase hex digit
hex_char_for(v) == IF v < 10 THEN 48 + v ELSE 87 + v

\* from_u32 without the surrogate gap
IsScalarNoSurrogates(v) == v >= 0 /\ v <= 1114111

\* std::char::from_u32(value).is_some(): a Unicode scalar value
IsScalar(v) == v >= 0 /\ v <= 1114111 /\ ~(v >= 55296 /\ v <= 57343)

\* ------------------------------------------------------------------ spans

Min(a, b) == IF a <= b THEN a ELSE b
Max(a, b) == IF a >= b THEN a ELSE b

\* Span::merge: the smallest span containing both
Merge(a, b) == <<Min(a[1], b[1]), Max(a[2], b[2])>>

\* the position of the token at index i
Pos(i) == <<i, i + 1>>

\* the span_before argument of peek_ident_no_interpolation
SpanBefore == <<0, 0>>

\* ------------------------------------------------------------------ state

VARIABLES
    buf,        \* Lexer: the token buffer (a sequence of codepoints)
    cursor,     \* Lexer: the committed position
    lookahead,  \* Lexer: the lookahead position
    unit,       \* peek_ident_no_interpolation: the unit argument
    pc,         \* the control location
    text,       \* peek_ident_no_interpolation: text
    textSrc,    \* for each character of text, the index of the token it came from
    span,       \* peek_ident_no_interpolation: span
    ctx,        \* the call site of the body loop: "dashdash" (line 83) or "main" (line 103)
    bodyText,   \* peek_ident_body_no_interpolation: text
    bodySrc,    \* for each character of bodyText, the index of the token it came from
    bodySpan,   \* peek_ident_body_no_interpolation: span
    escRet,     \* the call site of peek_escape: "top", "first" (line 98) or "body" (line 137)
    escAt,      \* the lookahead position at which peek_escape was entered
    value,      \* peek_escape: value
    escSpan,    \* peek_escape: span
    escN,       \* peek_escape: iterations of the hex loop done
    escOut,     \* peek_escape: the string returned with Ok
    result,     \* what the outermost call returned
    pass,       \* 1: the scan of the input; 2: the scan of the text the first returned
    firstText,  \* the text the first scan returned (pass 2)
    scope,      \* Scope: the chain of frames, the global frame first, the innermost last
    phase,      \* evaluation: "idle", "called" (through call) or "both" (and directly)
    req,        \* evaluation: the function name, the arguments and the selector context
    viaCall,    \* the result of call(get-function(name), args...)
    direct,     \* the result of name(args...)
    out,        \* the result of the builtin evaluated last (its name and arguments in req)
    again,      \* the result of evaluating the same builtin on the same arguments again
    depth       \* the invocations of a recursive function that have not returned

lexVars == <<buf, cursor, lookahead>>
identVars == <<unit, text, textSrc, span, ctx>>
bodyVars == <<bodyText, bodySrc, bodySpan>>
escVars == <<escRet, escAt, value, escSpan, escN, escOut>>
vars == <<buf, cursor, lookahead, unit, pc, text, textSrc, span, ctx, bodyText,
          bodySrc, bodySpan, escRet, escAt, value, escSpan, escN, escOut, result,
          pass, firstText, scope, phase, req, viaCall, direct, out, again, depth>>
metaVars == <<scope, phase, req, viaCall, direct, out, again, depth>>
scanVars == <<buf, cursor, lookahead, unit, pc, text, textSrc, span, ctx,
              bodyText, bodySrc, bodySpan, escRet, escAt, value, escSpan, escN,
              escOut, result, pass, firstText>>
\* what no step of a scan changes
restVars == <<pass, firstText, metaVars>>

\* ------------------------------------------------------------------ Lexer

\* Lexer::peek: the token at the lookahead position, or None at end of input
PeekAt(i) == IF i >= 0 /\ i < Len(buf) THEN buf[i + 1] ELSE None
Peek == PeekAt(lookahead)

\* Lexer::peek_forward(n): the lookahead position after the move
PeekForward(la, n) == la + n

\* Lexer::peek_backward(n): the lookahead position after the move
PeekBackward(la, n) == la - n

\* Lexer::advance_cursor: commits one token; <<cursor, lookahead>> after it
AdvanceCursor(cur, la) == <<cur + 1, la + 1>>

\* --------------------------------------------------------------- results

NoResult == [kind |-> "none", msg |-> "", node |-> <<>>, span |-> <<0, 0>>]
Ok(node, sp) == [kind |-> "ok", msg |-> "", node |-> node, span |-> sp]
Err(msg, sp) == [kind |-> "err", msg |-> msg, node |-> <<>>, span |-> sp]
Panic == [kind |-> "panic", msg |-> "", node |-> <<>>, span |-> <<0, 0>>]

\* ------------------------------------------------------------------ inputs

SeqsUpTo(S, n) == UNION {[1..k -> S] : k \in 0..n}

\* '\n', '-', '.', '1', '\', 'd'
Alphabet == {Newline, Dash, Dot, 49, Backslash, 100}
Inputs == SeqsUpTo(Alphabet, MaxLen)

\* '\n', ' ', '-', '.', '1', '4', '7', 'f', 'g', DEL
EscAlphabet == {Newline, Space, Dash, Dot, 49, 52, 55, 102, 103, 127}
\* '0', '1', 'd'
HexAlphabet == {48, 49, 100}
EscTails == {<<>>, <<Space>>, <<103>>}
EscInputs ==
    SeqsUpTo(EscAlphabet, MaxEscLen)
        \cup {h \o t : h \in SeqsUpTo(HexAlphabet, MaxHexRun), t \in EscTails}

\* ------------------------------------------------------------ peek_escape

\* the hex loop runs at most 6 times: for _ in 0..6
HexLimit == 6

\* the re-encoding with the control test `value < 0x1F`
EncodeOffByOne(v) ==
    IF is_name(v) THEN <<v>>
    ELSE IF v < 31 \/ v = 127
        THEN <<Backslash>>
                \o (IF v > 15 THEN <<hex_char_for(v \div 16)>> ELSE <<>>)
                \o <<hex_char_for(v % 16), Space>>
    ELSE <<Backslash, v>>

\* the text peek_escape returns for the scalar value v (lines 48-61)
Encode(v) ==
    IF is_name(v) THEN <<v>>
    ELSE IF v <= 31 \/ v = 127
        THEN <<Backslash>>
                \o (IF v > 15 THEN <<hex_char_for(v \div 16)>> ELSE <<>>)
                \o <<hex_char_for(v % 16), Space>>
    ELSE <<Backslash, v>>

\* toks.peek() is None: return Ok(String::new())
EscEof ==
    /\ pc = "esc"
    /\ Peek = None
    /\ value' = 0
    /\ escOut' = <<>>
    /\ pc' = "escret"
    /\ UNCHANGED <<lexVars, identVars, bodyVars, escRet, escAt, escSpan, escN,
                   result, restVars>>

\* first.kind == '\n': Err("Expected escape sequence.", first.pos())
EscNewline ==
    /\ pc = "esc"
    /\ Peek = Newline
    /\ value' = 0
    /\ escSpan' = Pos(lookahead)
    /\ result' = Err("Expected escape sequence.", Pos(lookahead))
    /\ pc' = "done"
    /\ UNCHANGED <<lexVars, identVars, bodyVars, escRet, escAt, escN, escOut,
                   restVars>>

\* first.kind.is_ascii_hexdigit(): enter the hex loop
EscHexEnter ==
    /\ pc = "esc"
    /\ Peek # None
    /\ Peek # Newline
    /\ IsAsciiHexdigit(Peek)
    /\ value' = 0
    /\ escSpan' = Pos(lookahead)
    /\ escN' = 0
    /\ pc' = "eschex"
    /\ UNCHANGED <<lexVars, identVars, bodyVars, escRet, escAt, escOut, result,
                   restVars>>

\* a hex loop without the limit of iterations
HexLoopUncapped == Peek # None /\ IsAsciiHexdigit(Peek)

\* the hex loop goes on: fewer than HexLimit iterations done, a hex digit is next
HexLoopContinues == escN < HexLimit /\ Peek # None /\ IsAsciiHexdigit(Peek)

\* one iteration of the hex loop (lines 27-37)
EscHexDigit ==
    /\ pc = "eschex"
    /\ HexLoopContinues
    /\ value' = value * 16 + as_hex(Peek)
    /\ escSpan' = Merge(escSpan, Pos(lookahead))
    /\ lookahead' = PeekForward(lookahead, 1)
    /\ escN' = escN + 1
    /\ UNCHANGED <<buf, cursor, identVars, bodyVars, escRet, escAt, escOut,
                   result, restVars, pc>>

\* the hex loop ends; one whitespace character after it is consumed (lines 39-41)
EscHexEnd ==
    /\ pc = "eschex"
    /\ ~HexLoopContinues
    /\ lookahead' = IF Peek # None /\ IsWhitespace(Peek)
                        THEN PeekForward(lookahead, 1)
                        ELSE lookahead
    /\ pc' = "escenc"
    /\ UNCHANGED <<buf, cursor, identVars, bodyVars, escVars, result, restVars>>

\* any other first character stands for itself (lines 42-45)
EscRaw ==
    /\ pc = "esc"
    /\ Peek # None
    /\ Peek # Newline
    /\ ~IsAsciiHexdigit(Peek)
    /\ escSpan' = Pos(lookahead)
    /\ value' = Peek
    /\ cursor' = AdvanceCursor(cursor, lookahead)[1]
    /\ lookahead' = AdvanceCursor(cursor, lookahead)[2]
    /\ pc' = "escenc"
    /\ UNCHANGED <<buf, identVars, bodyVars, escRet, escAt, escN, escOut,
                   result, restVars>>

\* char::from_u32(value) is None: Err("Invalid escape sequence.", span)
EscInvalid ==
    /\ pc = "escenc"
    /\ ~IsScalar(value)
    /\ result' = Err("Invalid escape sequence.", escSpan)
    /\ pc' = "done"
    /\ UNCHANGED <<lexVars, identVars, bodyVars, escVars, restVars>>

\* the value is a scalar: return its text (lines 48-61)
EscEncode ==
    /\ pc = "escenc"
    /\ IsScalar(value)
    /\ escOut' = Encode(value)
    /\ pc' = "escret"
    /\ UNCHANGED <<lexVars, identVars, bodyVars, escRet, escAt, value, escSpan,
                   escN, result, restVars>>

\* peek_escape called on its own returns to its caller
EscReturnTop ==
    /\ pc = "escret"
    /\ escRet = "top"
    /\ result' = Ok(escOut, <<0, 0>>)
    /\ pc' = "done"
    /\ UNCHANGED <<lexVars, identVars, bodyVars, escVars, restVars>>

\* a sequence of n copies of x
Copies(n, x) == [i \in 1..n |-> x]

\* ------------------------------------------- peek_ident_no_interpolation

\* the input is empty: Err("Expected identifier.", span_before) (lines 69-72)
IdentEmpty ==
    /\ pc = "ident"
    /\ Peek = None
    /\ result' = Err("Expected identifier.", SpanBefore)
    /\ pc' = "done"
    /\ UNCHANGED <<lexVars, identVars, bodyVars, escVars, restVars>>

\* a '-' and then the end of the input: return "-" (lines 74-79)
IdentLoneDash ==
    /\ pc = "ident"
    /\ Peek = Dash
    /\ PeekAt(lookahead + 1) = None
    /\ lookahead' = PeekForward(lookahead, 1)
    /\ text' = <<Dash>>
    /\ textSrc' = <<lookahead>>
    /\ span' = Pos(lookahead)
    /\ result' = Ok(text', span')
    /\ pc' = "done"
    /\ UNCHANGED <<buf, cursor, unit, ctx, bodyVars, escVars, restVars>>

\* "--": consume both and scan the body (lines 74-83)
IdentDashDash ==
    /\ pc = "ident"
    /\ Peek = Dash
    /\ PeekAt(lookahead + 1) = Dash
    /\ lookahead' = PeekForward(PeekForward(lookahead, 1), 1)
    /\ text' = <<Dash, Dash>>
    /\ textSrc' = <<lookahead, lookahead + 1>>
    /\ span' = Pos(lookahead)
    /\ ctx' = "dashdash"
    /\ bodyText' = <<>>
    /\ bodySrc' = <<>>
    /\ bodySpan' = span'
    /\ pc' = "body"
    /\ UNCHANGED <<buf, cursor, unit, escVars, result, restVars>>

\* a '-' and then something that is not a '-' (lines 74-86)
IdentDash ==
    /\ pc = "ident"
    /\ Peek = Dash
    /\ PeekAt(lookahead + 1) # None
    /\ PeekAt(lookahead + 1) # Dash
    /\ lookahead' = PeekForward(lookahead, 1)
    /\ text' = <<Dash>>
    /\ textSrc' = <<lookahead>>
    /\ span' = Pos(lookahead)
    /\ pc' = "first"
    /\ UNCHANGED <<buf, cursor, unit, ctx, bodyVars, escVars, result, restVars>>

\* no leading '-' (lines 69-74)
IdentNoDash ==
    /\ pc = "ident"
    /\ Peek # None
    /\ Peek # Dash
    /\ text' = <<>>
    /\ textSrc' = <<>>
    /\ span' = Pos(lookahead)
    /\ pc' = "first"
    /\ UNCHANGED <<lexVars, unit, ctx, bodyVars, escVars, result, restVars>>

\* the first character is a name-start character (lines 88-95, 103)
FirstNameStart ==
    /\ pc = "first"
    /\ Peek # None
    /\ is_name_start(Peek)
    /\ text' = Append(text, Peek)
    /\ textSrc' = Append(textSrc, lookahead)
    /\ lookahead' = PeekForward(lookahead, 1)
    /\ ctx' = "main"
    /\ bodyText' = <<>>
    /\ bodySrc' = <<>>
    /\ bodySpan' = span
    /\ pc' = "body"
    /\ UNCHANGED <<buf, cursor, unit, span, escVars, result, restVars>>

\* the first character is a backslash: peek_escape (lines 96-98)
FirstEscape ==
    /\ pc = "first"
    /\ Peek = Backslash
    /\ lookahead' = PeekForward(lookahead, 1)
    /\ escRet' = "first"
    /\ escAt' = lookahead'
    /\ pc' = "esc"
    /\ UNCHANGED <<buf, cursor, identVars, bodyVars, value, escSpan, escN,
                   escOut, result, restVars>>

\* the rejection reported at the start of the identifier, not at the character
FirstRejectAtStart ==
    /\ pc = "first"
    /\ Peek # Backslash
    /\ ~(Peek # None /\ is_name_start(Peek))
    /\ result' = Err("Expected identifier.", span)
    /\ pc' = "done"
    /\ UNCHANGED <<lexVars, identVars, bodyVars, escVars, restVars>>

\* anything else: Err("Expected identifier.", first.pos()) (lines 88-91, 99-100)
FirstReject ==
    /\ pc = "first"
    /\ Peek # Backslash
    /\ ~(Peek # None /\ is_name_start(Peek))
    /\ result' = Err("Expected identifier.",
                     IF Peek = None THEN span ELSE Pos(lookahead))
    /\ pc' = "done"
    /\ UNCHANGED <<lexVars, identVars, bodyVars, escVars, restVars>>

\* peek_escape returns to line 98; the body is scanned next (line 103)
EscReturnFirst ==
    /\ pc = "escret"
    /\ escRet = "first"
    /\ text' = text \o escOut
    /\ textSrc' = textSrc \o Copies(Len(escOut), escAt)
    /\ ctx' = "main"
    /\ bodyText' = <<>>
    /\ bodySrc' = <<>>
    /\ bodySpan' = span
    /\ pc' = "body"
    /\ UNCHANGED <<lexVars, unit, span, escVars, result, restVars>>

\* -------------------------------------- peek_ident_body_no_interpolation

\* in unit mode a '-' before this character is left to the number parser
DashStops(second) == second = Dot \/ IsAsciiDigit(second)

\* the loop condition fails at the end of the input (line 115)
BodyEnd ==
    /\ pc = "body"
    /\ Peek = None
    /\ pc' = "bodyret"
    /\ UNCHANGED <<lexVars, identVars, bodyVars, escVars, result, restVars>>

\* unit mode, '-' is the last character: peek_forward(1) is None (lines 116-122)
BodyDashEof ==
    /\ pc = "body"
    /\ unit
    /\ Peek = Dash
    /\ PeekAt(PeekForward(lookahead, 1)) = None
    /\ bodySpan' = Merge(bodySpan, Pos(lookahead))
    /\ lookahead' = PeekForward(lookahead, 1)
    /\ pc' = "bodyret"
    /\ UNCHANGED <<buf, cursor, identVars, bodyText, bodySrc, escVars, result,
                   restVars>>

\* unit mode, '-' before '.' or a digit: step back and stop (lines 116-128)
BodyDashStop ==
    /\ pc = "body"
    /\ unit
    /\ Peek = Dash
    /\ PeekAt(PeekForward(lookahead, 1)) # None
    /\ DashStops(PeekAt(PeekForward(lookahead, 1)))
    /\ bodySpan' = Merge(bodySpan, Pos(lookahead))
    /\ lookahead' = PeekBackward(PeekForward(lookahead, 1), 1)
    /\ pc' = "bodyret"
    /\ UNCHANGED <<buf, cursor, identVars, bodyText, bodySrc, escVars, result,
                   restVars>>

\* the lookahead position after lines 119-131 when the '-' is kept
DashTakeTarget(la) ==
    PeekForward(PeekForward(PeekBackward(PeekForward(la, 1), 1), 1), 1)

\* unit mode, '-' before anything else, a token two places on (lines 116-131)
BodyDashTake ==
    /\ pc = "body"
    /\ unit
    /\ Peek = Dash
    /\ PeekAt(PeekForward(lookahead, 1)) # None
    /\ ~DashStops(PeekAt(PeekForward(lookahead, 1)))
    /\ PeekAt(DashTakeTarget(lookahead)) # None
    /\ bodySpan' = Merge(bodySpan, Pos(lookahead))
    /\ lookahead' = DashTakeTarget(lookahead)
    /\ bodyText' = bodyText \o <<Dash, PeekAt(lookahead')>>
    /\ bodySrc' = bodySrc \o <<lookahead, lookahead'>>
    /\ UNCHANGED <<buf, cursor, identVars, escVars, result, restVars, pc>>

\* the same, but no token two places on: peek_forward(1).unwrap() panics (line 131)
BodyDashPanic ==
    /\ pc = "body"
    /\ unit
    /\ Peek = Dash
    /\ PeekAt(PeekForward(lookahead, 1)) # None
    /\ ~DashStops(PeekAt(PeekForward(lookahead, 1)))
    /\ PeekAt(DashTakeTarget(lookahead)) = None
    /\ bodySpan' = Merge(bodySpan, Pos(lookahead))
    /\ lookahead' = DashTakeTarget(lookahead)
    /\ bodyText' = Append(bodyText, Dash)
    /\ bodySrc' = Append(bodySrc, lookahead)
    /\ result' = Panic
    /\ pc' = "done"
    /\ UNCHANGED <<buf, cursor, identVars, escVars, restVars>>

\* a name character is consumed and appended (lines 116, 132-134)
BodyName ==
    /\ pc = "body"
    /\ Peek # None
    /\ ~(unit /\ Peek = Dash)
    /\ is_name(Peek)
    /\ bodySpan' = Merge(bodySpan, Pos(lookahead))
    /\ bodyText' = Append(bodyText, Peek)
    /\ bodySrc' = Append(bodySrc, lookahead)
    /\ lookahead' = PeekForward(lookahead, 1)
    /\ UNCHANGED <<buf, cursor, identVars, escVars, result, restVars, pc>>

\* a backslash: peek_escape (lines 116, 135-137)
BodyEscape ==
    /\ pc = "body"
    /\ Peek = Backslash
    /\ bodySpan' = Merge(bodySpan, Pos(lookahead))
    /\ lookahead' = PeekForward(lookahead, 1)
    /\ escRet' = "body"
    /\ escAt' = lookahead'
    /\ pc' = "esc"
    /\ UNCHANGED <<buf, cursor, identVars, bodyText, bodySrc, value, escSpan,
                   escN, escOut, result, restVars>>

\* peek_escape returns to line 137
EscReturnBody ==
    /\ pc = "escret"
    /\ escRet = "body"
    /\ bodyText' = bodyText \o escOut
    /\ bodySrc' = bodySrc \o Copies(Len(escOut), escAt)
    /\ pc' = "body"
    /\ UNCHANGED <<lexVars, identVars, bodySpan, escVars, result, restVars>>

\* any other character ends the loop (lines 116, 138-140)
BodyBreak ==
    /\ pc = "body"
    /\ Peek # None
    /\ ~(unit /\ Peek = Dash)
    /\ ~is_name(Peek)
    /\ Peek # Backslash
    /\ bodySpan' = Merge(bodySpan, Pos(lookahead))
    /\ pc' = "bodyret"
    /\ UNCHANGED <<lexVars, identVars, bodyText, bodySrc, escVars, result,
                   restVars>>

\* the span peek_ident_no_interpolation returns after "--" (line 84)
DashDashSpan(sp, bsp) == sp

\* the body returns to line 83; the scanner returns (lines 83-84)
ReturnDashDash ==
    /\ pc = "bodyret"
    /\ ctx = "dashdash"
    /\ text' = text \o bodyText
    /\ textSrc' = textSrc \o bodySrc
    /\ span' = DashDashSpan(span, bodySpan)
    /\ result' = Ok(text', span')
    /\ pc' = "done"
    /\ UNCHANGED <<lexVars, unit, ctx, bodyVars, escVars, restVars>>

\* the body returns to line 103; the scanner returns (lines 103-106)
ReturnMain ==
    /\ pc = "bodyret"
    /\ ctx = "main"
    /\ span' = Merge(span, bodySpan)
    /\ text' = text \o bodyText
    /\ textSrc' = textSrc \o bodySrc
    /\ result' = Ok(text', span')
    /\ pc' = "done"
    /\ UNCHANGED <<lexVars, unit, ctx, bodyVars, escVars, restVars>>

\* ------------------------------------------------------------------ values

\* Value: Dimension(number, unit), Ident(string, quote), True, False, Null,
\* Function(SassFunction); the fields a variant lacks hold "-"
Val(tag, a, b, c) == [tag |-> tag, a |-> a, b |-> b, c |-> c]
VTrue == Val("True", "-", "-", "-")
VFalse == Val("False", "-", "-", "-")
VNull == Val("Null", "-", "-", "-")
Dimension(n, u) == Val("Dimension", n, u, "-")
Ident(str, quote) == Val("Ident", str, quote, "-")
\* Value::Function(SassFunction::UserDefined(decl, name) | Builtin(f, name))
Function(kind, name, decl) == Val("Function", kind, name, decl)

\* Value::bool
Bool(b) == IF b THEN VTrue ELSE VFalse

\* Value::is_true: every value but False and Null
is_true(v) == v.tag # "False" /\ v.tag # "Null"

\* SassResult<Value>
OkVal(v) == [ok |-> TRUE, val |-> v, msg |-> <<>>]
Error(msg) == [ok |-> FALSE, val |-> VNull, msg |-> msg]

\* ------------------------------------------------------------------- Args

\* CallArgs: the positional arguments by index and the named ones by name
Args(pos, named) == [pos |-> pos, named |-> named]

\* the positional arguments given in order, and the named ones
ArgsOf(list, named) == Args([i \in 0..(Len(list) - 1) |-> list[i + 1]], named)

\* CallArgs::len
ArgsLen(args) == Cardinality(DOMAIN args.pos) + Cardinality(DOMAIN args.named)

\* a function without the key k
Without(f, k) == [x \in (DOMAIN f) \ {k} |-> f[x]]

\* arg!(args, idx, name): the positional argument idx, else the named argument
\* name; the argument is taken out of args
ArgPresent(args, idx, name) == idx \in DOMAIN args.pos \/ name \in DOMAIN args.named
ArgValue(args, idx, name) ==
    IF idx \in DOMAIN args.pos THEN args.pos[idx] ELSE args.named[name]
ArgRest(args, idx, name) ==
    IF idx \in DOMAIN args.pos THEN Args(Without(args.pos, idx), args.named)
    ELSE Args(args.pos, Without(args.named, name))
Missing(name) == Error(<<"Missing argument", name>>)

\* max_args!(args, n)
TooMany(args, n) == ArgsLen(args) > n
ArityError(args, n) == Error(<<"Only", n, "arguments allowed, but", ArgsLen(args), "were passed.">>)

\* CallArgs::decrement: the first positional slot is dropped, the others move down
decrement(args) ==
    Args([i \in {j - 1 : j \in (DOMAIN args.pos) \ {0}} |-> args.pos[i + 1]],
         args.named)

\* ------------------------------------------------------------------ Scope

\* the frames of sc that define name
Defining(sc, name) == {i \in 1..Len(sc) : name \in DOMAIN sc[i]}

\* Scope::fn_exists
fn_exists(sc, name) == Defining(sc, name) # {}

\* Scope::get_fn: the declaration in the innermost frame that defines name
get_fn(sc, name) ==
    sc[CHOOSE i \in Defining(sc, name) : \A j \in Defining(sc, name) : j <= i][name]

\* -------------------------------------------------------------- functions

\* the names of the global builtin registry that are modelled
GLOBAL_FUNCTIONS == {"if", "function-exists"}

\* "if" that takes only the value True for true
BuiltinIfOnlyTrue(args) ==
    IF TooMany(args, 3) THEN ArityError(args, 3)
    ELSE IF ~ArgPresent(args, 0, "condition") THEN Missing("condition")
    ELSE IF ArgValue(args, 0, "condition").tag = "True"
        THEN (IF ArgPresent(args, 1, "if-true")
                THEN OkVal(ArgValue(args, 1, "if-true"))
                ELSE Missing("if-true"))
    ELSE (IF ArgPresent(args, 2, "if-false")
            THEN OkVal(ArgValue(args, 2, "if-false"))
            ELSE Missing("if-false"))

\* "if" (meta.rs lines 10-20)
BuiltinIf(args) ==
    IF TooMany(args, 3) THEN ArityError(args, 3)
    ELSE IF ~ArgPresent(args, 0, "condition") THEN Missing("condition")
    ELSE IF is_true(ArgValue(args, 0, "condition"))
        THEN (IF ArgPresent(args, 1, "if-true")
                THEN OkVal(ArgValue(args, 1, "if-true"))
                ELSE Missing("if-true"))
    ELSE (IF ArgPresent(args, 2, "if-false")
            THEN OkVal(ArgValue(args, 2, "if-false"))
            ELSE Missing("if-false"))

\* Unit::to_string: the unit's name, nothing for Unit::None
UnitToString(u) == IF u = "None" THEN "" ELSE u

\* "unit" that returns an unquoted string
BuiltinUnitUnquoted(args) ==
    IF TooMany(args, 1) THEN ArityError(args, 1)
    ELSE IF ~ArgPresent(args, 0, "number") THEN Missing("number")
    ELSE LET v == ArgValue(args, 0, "number")
         IN  IF v.tag = "Dimension"
                THEN OkVal(Ident(UnitToString(v.b), "None"))
                ELSE Error(<<"$number:", v, "is not a number.">>)

\* "unit" (meta.rs lines 48-58)
BuiltinUnit(args) ==
    IF TooMany(args, 1) THEN ArityError(args, 1)
    ELSE IF ~ArgPresent(args, 0, "number") THEN Missing("number")
    ELSE LET v == ArgValue(args, 0, "number")
         IN  IF v.tag = "Dimension"
                THEN OkVal(Ident(UnitToString(v.b), "Double"))
                ELSE Error(<<"$number:", v, "is not a number.">>)

\* Value::kind: the name of the value's type
kind(v) ==
    CASE v.tag = "Dimension" -> OkVal("number")
      [] v.tag = "Ident" -> OkVal("string")
      [] v.tag \in {"True", "False"} -> OkVal("bool")
      [] v.tag = "Null" -> OkVal("null")
      [] v.tag = "Function" -> OkVal("function")

\* "type-of" that returns a quoted string
BuiltinTypeOfQuoted(args) ==
    IF TooMany(args, 1) THEN ArityError(args, 1)
    ELSE IF ~ArgPresent(args, 0, "value") THEN Missing("value")
    ELSE LET k == kind(ArgValue(args, 0, "value"))
         IN  IF k.ok THEN OkVal(Ident(k.val, "Double")) ELSE k

\* "type-of" (meta.rs lines 59-66)
BuiltinTypeOf(args) ==
    IF TooMany(args, 1) THEN ArityError(args, 1)
    ELSE IF ~ArgPresent(args, 0, "value") THEN Missing("value")
    ELSE LET k == kind(ArgValue(args, 0, "value"))
         IN  IF k.ok THEN OkVal(Ident(k.val, "None")) ELSE k

\* "unitless" that is false for everything but a dimension without a unit
BuiltinUnitlessStrict(args) ==
    IF TooMany(args, 1) THEN ArityError(args, 1)
    ELSE IF ~ArgPresent(args, 0, "number") THEN Missing("number")
    ELSE LET v == ArgValue(args, 0, "number")
         IN  OkVal(Bool(v.tag = "Dimension" /\ v.b = "None"))

\* "unitless" (meta.rs lines 67-77)
BuiltinUnitless(args) ==
    IF TooMany(args, 1) THEN ArityError(args, 1)
    ELSE IF ~ArgPresent(args, 0, "number") THEN Missing("number")
    ELSE LET v == ArgValue(args, 0, "number")
         IN  IF v.tag = "Dimension" /\ v.b = "None" THEN OkVal(VTrue)
             ELSE IF v.tag = "Dimension" THEN OkVal(VFalse)
             ELSE OkVal(VTrue)

\* function-exists that looks in the scope chain only
BuiltinFunctionExistsScopeOnly(args, sc) ==
    IF TooMany(args, 2) THEN ArityError(args, 2)
    ELSE IF ~ArgPresent(args, 0, "name") THEN Missing("name")
    ELSE LET v == ArgValue(args, 0, "name")
         IN  IF v.tag = "Ident"
                THEN OkVal(Bool(fn_exists(sc, v.a)))
                ELSE Error(<<"$name:", v, "is not a string.">>)

\* "function-exists" (meta.rs lines 118-129)
BuiltinFunctionExists(args, sc) ==
    IF TooMany(args, 2) THEN ArityError(args, 2)
    ELSE IF ~ArgPresent(args, 0, "name") THEN Missing("name")
    ELSE LET v == ArgValue(args, 0, "name")
         IN  IF v.tag = "Ident"
                THEN OkVal(Bool(fn_exists(sc, v.a) \/ v.a \in GLOBAL_FUNCTIONS))
                ELSE Error(<<"$name:", v, "is not a string.">>)

\* a builtin of the registry applied to its arguments
BuiltinCall(name, args, sc, sel) ==
    IF name = "if" THEN BuiltinIf(args) ELSE BuiltinFunctionExists(args, sc)

\* the user-defined declarations: "ret-a" is `@function f($a) { @return $a }`,
\* "ret-sel" is `@function f() { @return & }`
Decls == {"ret-a", "ret-sel"}

\* a user-defined function applied to its arguments
UserCall(decl, args, sc, sel) ==
    IF decl = "ret-a"
        THEN (IF TooMany(args, 1) THEN ArityError(args, 1)
              ELSE IF ~ArgPresent(args, 0, "a") THEN Missing("a")
              ELSE OkVal(ArgValue(args, 0, "a")))
    ELSE (IF TooMany(args, 0) THEN ArityError(args, 0)
          ELSE OkVal(Ident(sel, "None")))

\* SassFunction::call
SassFunctionCall(f, args, sc, sel) ==
    IF f.a = "Builtin" THEN BuiltinCall(f.b, args, sc, sel)
    ELSE UserCall(f.c, args, sc, sel)

\* get-function that looks in the builtin registry first
GetFunctionBuiltinFirst(args, sc) ==
    LET n == ArgValue(args, 0, "name")
    IN  IF ~ArgPresent(args, 0, "name") THEN Missing("name")
        ELSE IF n.tag # "Ident" THEN Error(<<"$name:", n, "is not a string.">>)
        ELSE IF n.a \in GLOBAL_FUNCTIONS THEN OkVal(Function("Builtin", n.a, "-"))
        ELSE IF fn_exists(sc, n.a)
            THEN OkVal(Function("UserDefined", n.a, get_fn(sc, n.a)))
        ELSE Error(<<"Function not found:", n.a>>)

\* "get-function" (meta.rs lines 130-159)
GetFunction(args, sc) ==
    IF TooMany(args, 3) THEN ArityError(args, 3)
    ELSE IF ~ArgPresent(args, 0, "name") THEN Missing("name")
    ELSE LET n == ArgValue(args, 0, "name")
             css == IF ArgPresent(args, 1, "css")
                        THEN is_true(ArgValue(args, 1, "css"))
                        ELSE is_true(VFalse)
             module == IF ArgPresent(args, 2, "module")
                        THEN ArgValue(args, 2, "module")
                        ELSE VNull
         IN  IF n.tag # "Ident" THEN Error(<<"$name:", n, "is not a string.">>)
             ELSE IF module.tag \notin {"Ident", "Null"}
                THEN Error(<<"$module:", module, "is not a string.">>)
             ELSE IF module.tag = "Ident" /\ css
                THEN Error(<<"$css and $module may not both be passed at once.">>)
             ELSE IF fn_exists(sc, n.a)
                THEN OkVal(Function("UserDefined", n.a, get_fn(sc, n.a)))
             ELSE IF n.a \in GLOBAL_FUNCTIONS
                THEN OkVal(Function("Builtin", n.a, "-"))
             ELSE Error(<<"Function not found:", n.a>>)

\* the arguments forwarded without decrement()
ForwardedUnshifted(args) == ArgRest(args, 0, "function")

\* what "call" hands to the function: the arguments left after the function
\* reference was taken out, moved down by decrement() (line 167)
Forwarded(args) == decrement(ArgRest(args, 0, "function"))

\* "call" (meta.rs lines 160-169)
Call(args, sc, sel) ==
    IF ~ArgPresent(args, 0, "function") THEN Missing("function")
    ELSE LET f == ArgValue(args, 0, "function")
         IN  IF f.tag # "Function"
                THEN Error(<<"$function:", f, "is not a function reference.">>)
                ELSE SassFunctionCall(f, Forwarded(args), sc, sel)

\* the function name invoked directly with args: a user-defined function of
\* the scope, else a builtin of the registry
Invoke(name, args, sc, sel) ==
    IF fn_exists(sc, name) THEN UserCall(get_fn(sc, name), args, sc, sel)
    ELSE IF name \in GLOBAL_FUNCTIONS THEN BuiltinCall(name, args, sc, sel)
    ELSE Error(<<"Undefined function:", name>>)

\* `call(get-function(name), args...)`: the function reference in slot 0,
\* the arguments after it
CallGetFunction(name, args, sc, sel) ==
    LET gf == GetFunction(ArgsOf(<<Ident(name, "None")>>, <<>>), sc)
    IN  IF ~gf.ok THEN gf
        ELSE Call(Args([i \in {0} \cup {j + 1 : j \in DOMAIN args.pos} |->
                            IF i = 0 THEN gf.val ELSE args.pos[i - 1]],
                       args.named),
                  sc, sel)

\* ----------------------------------------------------- evaluation, bounds

\* most frames nested in the global frame
MaxDepth == 1
\* most positional arguments of a call
MaxArgs == 3

\* the names a stylesheet defines functions under, and the names it calls
FnNames == {"f", "if"}
CallNames == {"f", "if", "function-exists"}
Selectors == {"s1", "s2"}
ArgValues == {VTrue, VNull, Ident("f", "None")}
NamedArgs == {<<>>, [a |-> VTrue]}
Requests ==
    [name : CallNames,
     args : {ArgsOf(l, n) : l \in SeqsUpTo(ArgValues, MaxArgs), n \in NamedArgs},
     sel : Selectors]
NoRequest == [name |-> "-", args |-> ArgsOf(<<>>, <<>>), sel |-> "-"]
NoValue == Error(<<"not evaluated">>)

\* entering a nested block pushes a frame
EnterScope ==
    /\ phase = "idle"
    /\ Len(scope) <= MaxDepth
    /\ scope' = Append(scope, <<>>)
    /\ UNCHANGED <<scanVars, phase, req, viaCall, direct, out, again, depth>>

\* leaving the block pops it
ExitScope ==
    /\ phase = "idle"
    /\ Len(scope) > 1
    /\ scope' = SubSeq(scope, 1, Len(scope) - 1)
    /\ UNCHANGED <<scanVars, phase, req, viaCall, direct, out, again, depth>>

\* a function declaration is inserted into the innermost frame
InsertFn ==
    /\ phase = "idle"
    /\ \E name \in FnNames, decl \in Decls :
        scope' = [scope EXCEPT ![Len(scope)] =
                    [x \in (DOMAIN @) \cup {name} |-> IF x = name THEN decl ELSE @[x]]]
    /\ UNCHANGED <<scanVars, phase, req, viaCall, direct, out, again, depth>>

\* call(get-function(name), args...) is evaluated
EvalCall ==
    /\ phase = "idle"
    /\ \E r \in Requests :
        /\ req' = r
        /\ viaCall' = CallGetFunction(r.name, r.args, scope, r.sel)
    /\ phase' = "called"
    /\ UNCHANGED <<scanVars, scope, direct, out, again, depth>>

\* name(args...) is evaluated in the same scope
EvalDirect ==
    /\ phase = "called"
    /\ direct' = Invoke(req.name, req.args, scope, req.sel)
    /\ phase' = "both"
    /\ UNCHANGED <<scanVars, scope, req, viaCall, out, again, depth>>

\* the values passed as $name: defined or not, quoted or not, and a non-string
NameValues ==
    {Ident("f", "None"), Ident("if", "Double"), Ident("function-exists", "None"),
     Ident("g", "None"), VTrue}
\* the argument lists of function-exists and get-function: the name alone,
\* then with a second and a third argument
NameArgs ==
    {ArgsOf(<<v>>, <<>>) : v \in NameValues}
        \cup {ArgsOf(<<v, VTrue>>, <<>>) : v \in NameValues}
        \cup {ArgsOf(<<v, VTrue, Ident("m", "None")>>, <<>>) : v \in NameValues}
        \cup {ArgsOf(<<>>, [name |-> v]) : v \in NameValues}

\* function-exists(...) is evaluated
EvalFunctionExists ==
    /\ phase = "idle"
    /\ \E a \in NameArgs, sel \in Selectors :
        /\ req' = [name |-> "function-exists", args |-> a, sel |-> sel]
        /\ out' = BuiltinFunctionExists(a, scope)
    /\ phase' = "builtin"
    /\ UNCHANGED <<scanVars, scope, viaCall, direct, again, depth>>

\* get-function(...) is evaluated
EvalGetFunction ==
    /\ phase = "idle"
    /\ \E a \in NameArgs, sel \in Selectors :
        /\ req' = [name |-> "get-function", args |-> a, sel |-> sel]
        /\ out' = GetFunction(a, scope)
    /\ phase' = "builtin"
    /\ UNCHANGED <<scanVars, scope, viaCall, direct, again, depth>>

\* the units of the dimensions
Units == {"None", "px", "em"}
\* a value of every variant, strings of every quote kind
Values ==
    {VTrue, VFalse, VNull, Ident("a", "None"), Ident("a", "Double"),
     Ident("a", "Single"), Function("Builtin", "if", "-"),
     Function("UserDefined", "f", "ret-a")}
        \cup {Dimension("1", u) : u \in Units}
\* the argument lists of a builtin of one parameter: none, the parameter by
\* position or by name, one argument too many
OneArgs(formal) ==
    {ArgsOf(<<>>, <<>>)}
        \cup {ArgsOf(<<v>>, <<>>) : v \in Values}
        \cup {ArgsOf(<<>>, [n \in {formal} |-> v]) : v \in Values}
        \cup {ArgsOf(<<v, VNull>>, <<>>) : v \in Values}
\* the values passed to if
IfValues == {VTrue, VFalse, VNull, Dimension("1", "px"), Ident("a", "Double")}
\* the argument lists of if: up to one more than it takes, the branches also by name
IfArgs ==
    {ArgsOf(l, <<>>) : l \in SeqsUpTo(IfValues, MaxArgs + 1)}
        \cup {ArgsOf(<<c>>, [n \in {b} |-> v]) :
                c \in IfValues, b \in {"if-true", "if-false"}, v \in IfValues}

\* the builtin name applied to args
Builtin(name, args) ==
    CASE name = "if" -> BuiltinIf(args)
      [] name = "unit" -> BuiltinUnit(args)
      [] name = "type-of" -> BuiltinTypeOf(args)
      [] name = "unitless" -> BuiltinUnitless(args)

\* if(...) is evaluated
EvalIf ==
    /\ phase = "idle"
    /\ \E a \in IfArgs, sel \in Selectors :
        /\ req' = [name |-> "if", args |-> a, sel |-> sel]
        /\ out' = BuiltinIf(a)
    /\ phase' = "builtin"
    /\ UNCHANGED <<scanVars, scope, viaCall, direct, again, depth>>

\* unit(...) is evaluated
EvalUnit ==
    /\ phase = "idle"
    /\ \E a \in OneArgs("number"), sel \in Selectors :
        /\ req' = [name |-> "unit", args |-> a, sel |-> sel]
        /\ out' = BuiltinUnit(a)
    /\ phase' = "builtin"
    /\ UNCHANGED <<scanVars, scope, viaCall, direct, again, depth>>

\* type-of(...) is evaluated
EvalTypeOf ==
    /\ phase = "idle"
    /\ \E a \in OneArgs("value"), sel \in Selectors :
        /\ req' = [name |-> "type-of", args |-> a, sel |-> sel]
        /\ out' = BuiltinTypeOf(a)
    /\ phase' = "builtin"
    /\ UNCHANGED <<scanVars, scope, viaCall, direct, again, depth>>

\* unitless(...) is evaluated
EvalUnitless ==
    /\ phase = "idle"
    /\ \E a \in OneArgs("number"), sel \in Selectors :
        /\ req' = [name |-> "unitless", args |-> a, sel |-> sel]
        /\ out' = BuiltinUnitless(a)
    /\ phase' = "builtin"
    /\ UNCHANGED <<scanVars, scope, viaCall, direct, again, depth>>

\* the same builtin is evaluated on the same arguments a second time
EvalAgain ==
    /\ phase = "builtin"
    /\ req.name \in {"if", "unit", "type-of", "unitless"}
    /\ again' = Builtin(req.name, req.args)
    /\ phase' = "again"
    /\ UNCHANGED <<scanVars, scope, req, viaCall, direct, out, depth>>

\* the nested invocations the stack of the process has room for
StackCapacity == 4

\* the declaration `@function rec() { @return call(get-function("rec")) }`
\* is inserted into the innermost frame
InsertRecursive ==
    /\ phase = "idle"
    /\ scope' = [scope EXCEPT ![Len(scope)] =
                    [x \in (DOMAIN @) \cup {"rec"} |->
                        IF x = "rec" THEN "call-self" ELSE @[x]]]
    /\ UNCHANGED <<scanVars, phase, req, viaCall, direct, out, again, depth>>

\* get-function("rec") in the scope sc gives the recursive function
ResolvesRecursive(sc) ==
    LET gf == GetFunction(ArgsOf(<<Ident("rec", "None")>>, <<>>), sc)
    IN  gf.ok /\ gf.val.a = "UserDefined" /\ gf.val.c = "call-self"

\* call(get-function("rec")) is evaluated by the stylesheet: "call" takes the
\* function reference and invokes it (lines 161-167); the body starts to run
CallRecursive ==
    /\ phase = "idle"
    /\ ResolvesRecursive(scope)
    /\ \E sel \in Selectors :
        req' = [name |-> "rec", args |-> ArgsOf(<<>>, <<>>), sel |-> sel]
    /\ depth' = 1
    /\ phase' = "running"
    /\ UNCHANGED <<scanVars, scope, viaCall, direct, out, again>>

\* the body evaluates call(get-function("rec")) in turn: "call" invokes the
\* function again, one invocation deeper; lines 160-169 look at no counter
CallNested ==
    /\ phase = "running"
    /\ ResolvesRecursive(scope)
    /\ depth < StackCapacity
    /\ depth' = depth + 1
    /\ UNCHANGED <<scanVars, scope, phase, req, viaCall, direct, out, again>>

\* what is left of an evaluation that the process did not survive
Aborted == [ok |-> FALSE, val |-> VNull, msg |-> <<"abort:", "stack overflow">>]

\* the next invocation does not fit the stack: the process is aborted
StackOverflow ==
    /\ phase = "running"
    /\ depth = StackCapacity
    /\ out' = Aborted
    /\ phase' = "ended"
    /\ UNCHANGED <<scanVars, scope, req, viaCall, direct, again, depth>>

\* the state before any evaluation: the global frame alone, nothing defined
MetaIdle ==
    /\ scope = <<<<>>>>
    /\ phase = "idle"
    /\ req = NoRequest
    /\ viaCall = NoValue
    /\ direct = NoValue
    /\ out = NoValue
    /\ again = NoValue
    /\ depth = 0

\* ---------------------------------------------------------- specifications

\* the state in which buffer b is about to be scanned from location p
Fresh(b, u, p, r) ==
    /\ buf = b
    /\ cursor = 0
    /\ lookahead = 0
    /\ unit = u
    /\ pc = p
    /\ text = <<>>
    /\ textSrc = <<>>
    /\ span = <<0, 0>>
    /\ ctx = "main"
    /\ bodyText = <<>>
    /\ bodySrc = <<>>
    /\ bodySpan = <<0, 0>>
    /\ escRet = r
    /\ escAt = 0
    /\ value = 0
    /\ escSpan = <<0, 0>>
    /\ escN = 0
    /\ escOut = <<>>
    /\ result = NoResult
    /\ pass = 1
    /\ firstText = <<>>
    /\ MetaIdle

EscapeStep ==
    \/ EscEof
    \/ EscNewline
    \/ EscHexEnter
    \/ EscHexDigit
    \/ EscHexEnd
    \/ EscRaw
    \/ EscInvalid
    \/ EscEncode

IdentStep ==
    \/ IdentEmpty
    \/ IdentLoneDash
    \/ IdentDashDash
    \/ IdentDash
    \/ IdentNoDash
    \/ FirstNameStart
    \/ FirstEscape
    \/ FirstReject
    \/ EscReturnFirst
    \/ BodyEnd
    \/ BodyDashEof
    \/ BodyDashStop
    \/ BodyDashTake
    \/ BodyDashPanic
    \/ BodyName
    \/ BodyEscape
    \/ EscReturnBody
    \/ BodyBreak
    \/ ReturnDashDash
    \/ ReturnMain

\* peek_ident_no_interpolation on every input, in both modes
Init == \E b \in Inputs, u \in BOOLEAN : Fresh(b, u, "ident", "first")
Next == EscapeStep \/ IdentStep
Spec == Init /\ [][Next]_vars

\* the scan is not interrupted: a step that can be taken is taken
SpecLive == Spec /\ WF_vars(Next)

\* peek_escape on its own, the lookahead position just after a backslash
InitEsc == \E b \in EscInputs : Fresh(b, FALSE, "esc", "top")
NextEsc == EscapeStep \/ EscReturnTop
SpecEsc == InitEsc /\ [][NextEsc]_vars

\* function definitions and calls evaluated against the scope chain
InitMeta == Fresh(<<>>, FALSE, "idle", "top")
NextMeta ==
    \/ EnterScope
    \/ ExitScope
    \/ InsertFn
    \/ EvalCall
    \/ EvalDirect
    \/ EvalFunctionExists
    \/ EvalGetFunction
SpecMeta == InitMeta /\ [][NextMeta]_vars

\* the builtins that look at their arguments only
InitValue == Fresh(<<>>, FALSE, "idle", "top")
NextValue ==
    \/ EvalIf
    \/ EvalUnit
    \/ EvalTypeOf
    \/ EvalUnitless
    \/ EvalAgain
SpecValue == InitValue /\ [][NextValue]_vars

\* a function that invokes itself through call(get-function(name))
InitRecursion == Fresh(<<>>, FALSE, "idle", "top")
NextRecursion ==
    \/ EnterScope
    \/ ExitScope
    \/ InsertFn
    \/ InsertRecursive
    \/ CallRecursive
    \/ CallNested
    \/ StackOverflow
SpecRecursion == InitRecursion /\ [][NextRecursion]_vars

\* the scan of the text a first scan returned, again with unit = false
Rescan ==
    /\ pc = "done"
    /\ pass = 1
    /\ ~unit
    /\ result.kind = "ok"
    /\ buf' = result.node
    /\ cursor' = 0
    /\ lookahead' = 0
    /\ pc' = "ident"
    /\ text' = <<>>
    /\ textSrc' = <<>>
    /\ span' = <<0, 0>>
    /\ ctx' = "main"
    /\ bodyText' = <<>>
    /\ bodySrc' = <<>>
    /\ bodySpan' = <<0, 0>>
    /\ escRet' = "first"
    /\ escAt' = 0
    /\ value' = 0
    /\ escSpan' = <<0, 0>>
    /\ escN' = 0
    /\ escOut' = <<>>
    /\ result' = NoResult
    /\ pass' = 2
    /\ firstText' = result.node
    /\ UNCHANGED <<unit, metaVars>>

\* '\31 x': an identifier whose first character is the escape of a digit
EscapedDigitInput == <<Backslash, 51, 49, Space, 120>>

\* peek_ident_no_interpolation, and then the same on the text it returned
InitRoundTrip ==
    \E b \in Inputs \cup {EscapedDigitInput}, u \in BOOLEAN :
        Fresh(b, u, "ident", "first")
NextRoundTrip == EscapeStep \/ IdentStep \/ Rescan
SpecRoundTrip == InitRoundTrip /\ [][NextRoundTrip]_vars

\* ------------------------------------------------------------------ claims

\* the scan of the input (not of a returned text) has returned
Returned == pc = "done" /\ pass = 1
Accepted == Returned /\ result.kind = "ok"

\* the set of the elements of a sequence
Range(s) == {s[i] : i \in 1..Len(s)}

\* C1: every run of peek_ident_no_interpolation ends by returning Ok or Err;
\* no run ends in a panic, also not when the input ends one or two characters
\* after a '-' the body loop meets in unit mode.
C1_NoPanic == pc = "done" => result.kind \in {"ok", "err"}

\* C2: for an accepted input without escapes the returned text is, character
\* for character, the prefix of the input the lookahead position moved over:
\* a '-' kept in unit mode is consumed alone and appended alone.
C2_TextIsConsumedPrefix ==
    (Accepted /\ Backslash \notin Range(buf))
        => result.node = SubSeq(buf, 1, lookahead)

\* the scan returned with the lookahead position on a '-' that the body loop
\* met in unit mode before '.' or a digit
StoppedOnDash ==
    /\ Accepted
    /\ unit
    /\ lookahead >= 1
    /\ Peek = Dash
    /\ PeekAt(lookahead + 1) = Dot \/ IsAsciiDigit(PeekAt(lookahead + 1))

\* C3: in unit mode a '-' of the body followed by '.' or a digit stops the
\* scan: the lookahead position is on that '-' and no character of the
\* returned text comes from it; with unit = false it is consumed.
C3_DashBeforeDigitLeft ==
    /\ StoppedOnDash => lookahead \notin Range(textSrc)
    /\ (Accepted /\ ~unit) => Peek # Dash

\* peek_escape, called on its own, decoded a value and returned its text
Decoded == pc = "done" /\ escRet = "top" /\ result.kind = "ok" /\ lookahead > 0

\* "0123456789abcdef"
LowerHexDigits ==
    <<48, 49, 50, 51, 52, 53, 54, 55, 56, 57, 97, 98, 99, 100, 101, 102>>

\* lowercase hex of v < 256 without a leading zero digit
ShortHex(v) ==
    IF v <= 15 THEN <<LowerHexDigits[v + 1]>>
    ELSE <<LowerHexDigits[(v \div 16) + 1], LowerHexDigits[(v % 16) + 1]>>

\* name-start, ASCII digit or '-'
NameChar(c) ==
    \/ c \in 65..90
    \/ c \in 97..122
    \/ c = 95
    \/ c >= 128
    \/ c \in 48..57
    \/ c = 45

\* C4: for a decoded scalar value v peek_escape returns the character itself
\* when it is a name character; backslash, lowercase hex without a leading
\* zero digit and one space when v <= 0x1F or v = 0x7F; backslash and the
\* character otherwise.  So value 0x41 gives "A" and 0x1F gives "\1f ".
C4_EscapeEncoding ==
    Decoded =>
        /\ NameChar(value) => result.node = <<value>>
        /\ (~NameChar(value) /\ (value <= 31 \/ value = 127))
            => result.node = <<92>> \o ShortHex(value) \o <<32>>
        /\ (~NameChar(value) /\ value > 31 /\ value # 127)
            => result.node = <<92, value>>
        /\ value = 65 => result.node = <<65>>
        /\ value = 31 => result.node = <<92, 49, 102, 32>>

\* the escape "1f" was decoded to the text "\1f "
C4_Witness ==
    /\ Decoded
    /\ buf = <<49, 102>>
    /\ value = 31
    /\ result.node = <<92, 49, 102, 32>>

\* ASCII letter, '_' or a codepoint >= 0x80
NameStartChar(c) == c \in 65..90 \/ c \in 97..122 \/ c = 95 \/ c >= 128

\* the index of the character that must start the identifier: after one leading '-'
StartIndex(b) == IF Len(b) >= 1 /\ b[1] = Dash THEN 1 ELSE 0

\* the start situations in which the scanner must fail
StartFails(b) ==
    \/ b = <<>>
    \/ /\ StartIndex(b) < Len(b)
       /\ ~(StartIndex(b) = 1 /\ b[2] = Dash)
       /\ ~NameStartChar(b[StartIndex(b) + 1])
       /\ b[StartIndex(b) + 1] # 92

\* C5: the scanner fails with "Expected identifier." in exactly these start
\* situations, in both modes: the input is empty (at span_before), or after
\* zero or one leading '-' the current character is neither a second '-', a
\* name-start character nor a backslash (at that character).  A lone '-' is
\* accepted as the text "-".
C5_ExpectedIdentifier ==
    Returned =>
        /\ (result.kind = "err" /\ result.msg = "Expected identifier.")
            <=> StartFails(buf)
        /\ StartFails(buf) =>
            result.span = IF buf = <<>> THEN SpanBefore ELSE Pos(StartIndex(buf))
        /\ buf = <<Dash>> => (result.kind = "ok" /\ result.node = <<Dash>>)

\* "-1" in unit mode failed at the '1'
C5_Witness ==
    /\ Returned
    /\ unit
    /\ buf = <<Dash, 49>>
    /\ result = Err("Expected identifier.", <<1, 2>>)

\* C6: when the backslash the scanner consumed is the last character of the
\* input, so that peek_escape is entered at the end of the input, the scan
\* returns an error; it never returns an identifier without the backslash.
C6_UnterminatedEscapeFails ==
    (/\ Returned
     /\ Len(buf) >= 1
     /\ buf[Len(buf)] = Backslash
     /\ escAt = Len(buf))
        => result.kind = "err"

\* the number of leading hex digits of s, at most cap
RECURSIVE HexRun(_, _)
HexRun(s, cap) ==
    IF cap = 0 \/ s = <<>> \/ ~IsAsciiHexdigit(Head(s)) THEN 0
    ELSE 1 + HexRun(Tail(s), cap - 1)

\* the value of one hex digit
DigitValue(c) ==
    IF c \in 48..57 THEN c - 48 ELSE IF c \in 97..102 THEN c - 87 ELSE c - 55

\* the big-endian base-16 number a sequence of hex digits denotes
RECURSIVE HexNumber(_)
HexNumber(s) ==
    IF s = <<>> THEN 0
    ELSE 16 * HexNumber(SubSeq(s, 1, Len(s) - 1)) + DigitValue(s[Len(s)])

\* a surrogate, or above the last codepoint
NotScalar(v) == v \in 55296..57343 \/ v \in 1114112..16777215

\* C7: a hex escape of 1 to 6 digits whose value is a surrogate or lies in
\* 0x110000..0xFFFFFF fails with "Invalid escape sequence." at the span of
\* exactly the hex digits consumed; every other value succeeds; the
\* accumulated value never exceeds 0xFFFFFF.
C7_InvalidEscape ==
    /\ value <= 16777215
    /\ (pc = "done" /\ escRet = "top" /\ buf # <<>> /\ IsAsciiHexdigit(buf[1])) =>
        LET k == HexRun(buf, 6)
            v == HexNumber(SubSeq(buf, 1, k))
        IN  IF NotScalar(v)
                THEN result = Err("Invalid escape sequence.", <<0, k>>)
                ELSE result.kind = "ok" /\ value = v

\* the surrogate escape "dd00 " failed at its four hex digits
C7_Witness ==
    /\ pc = "done"
    /\ escRet = "top"
    /\ buf = <<100, 100, 48, 48, 32>>
    /\ result = Err("Invalid escape sequence.", <<0, 4>>)

\* C8: for an accepted input the returned span is the merge of the positions
\* of exactly the tokens the scan consumed, the tokens before the lookahead
\* position; "--foo" gives a span over all five characters.
C8_SpanIsConsumed == Accepted => result.span = <<0, lookahead>>

\* C9: the text returned for an input accepted with unit = false, scanned
\* again with unit = false, is accepted, consumed whole and returned unchanged.
C9_RoundTrip ==
    (pc = "done" /\ pass = 2)
        => /\ result.kind = "ok"
           /\ result.node = firstText
           /\ lookahead = Len(buf)

\* C10: for every scope state, every name get-function resolves and every
\* argument list, call(get-function(name), args...) returns the same value or
\* the same error as name(args...) evaluated in the same scope with the same
\* selector context.
C10_CallEqualsDirect ==
    (phase = "both" /\ (fn_exists(scope, req.name) \/ req.name \in {"if", "function-exists"}))
        => viaCall = direct

\* the user-defined f($a) of a nested frame, called with one positional
\* argument both ways, returned that argument
C10_Witness ==
    /\ phase = "both"
    /\ Len(scope) = 2
    /\ req.name = "f"
    /\ "f" \in DOMAIN scope[2]
    /\ DOMAIN req.args.pos = {0}
    /\ viaCall = OkVal(req.args.pos[0])
    /\ direct = viaCall

\* function-exists or get-function was evaluated with a string name and no
\* other argument
NameOnly(op) ==
    /\ phase = "builtin"
    /\ req.name = op
    /\ DOMAIN req.args.pos = {0}
    /\ DOMAIN req.args.named = {}
    /\ req.args.pos[0].tag = "Ident"

\* C11: in every scope state and for every string name, function-exists(name)
\* is true exactly when get-function(name) succeeds, and false exactly when
\* get-function(name) fails with `Function not found: <name>`.
C11_ExistsIffResolves ==
    /\ NameOnly("function-exists") =>
        /\ out \in {OkVal(VTrue), OkVal(VFalse)}
        /\ out = OkVal(VTrue) <=> GetFunction(req.args, scope).ok
        /\ out = OkVal(VFalse) <=>
            GetFunction(req.args, scope)
                = Error(<<"Function not found:", req.args.pos[0].a>>)
    /\ NameOnly("get-function") =>
        /\ out.ok <=> BuiltinFunctionExists(req.args, scope) = OkVal(VTrue)
        /\ out = Error(<<"Function not found:", req.args.pos[0].a>>)
            <=> BuiltinFunctionExists(req.args, scope) = OkVal(VFalse)

\* function-exists("if") was true in a scope chain that defines nothing
C11_Witness ==
    /\ NameOnly("function-exists")
    /\ req.args.pos[0].a = "if"
    /\ \A i \in 1..Len(scope) : DOMAIN scope[i] = {}
    /\ out = OkVal(VTrue)

\* the frames that define the function n
FramesWith(n) == {i \in 1..Len(scope) : n \in DOMAIN scope[i]}

\* C12: get-function(name) is Function(UserDefined) with the declaration of
\* the innermost defining frame when the scope chain defines name, also when
\* the registry has it too; Function(Builtin) when only the registry has it;
\* the error `Function not found: <name>` otherwise.  The function value
\* carries the requested name.
C12_UserDefinedFirst ==
    NameOnly("get-function") =>
        LET n == req.args.pos[0].a
        IN  IF FramesWith(n) # {}
                THEN \E i \in FramesWith(n) :
                        /\ \A j \in FramesWith(n) : j <= i
                        /\ out = OkVal(Function("UserDefined", n, scope[i][n]))
            ELSE IF n \in {"if", "function-exists"}
                THEN out = OkVal(Function("Builtin", n, "-"))
            ELSE out = Error(<<"Function not found:", n>>)

\* get-function("if") returned the user's function, which shadows the builtin
C12_Witness ==
    /\ NameOnly("get-function")
    /\ req.args.pos[0].a = "if"
    /\ FramesWith("if") # {}
    /\ out.ok
    /\ out.val.a = "UserDefined"
    /\ out.val.b = "if"

\* the builtin op was evaluated with exactly one argument, bound to formal
OneArg(op, formal) ==
    /\ phase \in {"builtin", "again"}
    /\ req.name = op
    /\ ArgsLen(req.args) = 1
    /\ ArgPresent(req.args, 0, formal)

\* the type names
TypeName(v) ==
    CASE v.tag = "Dimension" -> "number"
      [] v.tag = "Ident" -> "string"
      [] v.tag = "True" -> "bool"
      [] v.tag = "False" -> "bool"
      [] v.tag = "Null" -> "null"
      [] v.tag = "Function" -> "function"

\* C13: type-of with exactly one argument returns Ok with the unquoted name
\* of the type for every Value variant (Dimension, Ident of any quote kind,
\* True, False, Null, Function) and never an error.
C13_TypeOfTotal ==
    OneArg("type-of", "value") =>
        /\ out.ok
        /\ out.val = Ident(TypeName(ArgValue(req.args, 0, "value")), "None")

\* type-of of a function value returned the unquoted string function
C13_Witness ==
    /\ OneArg("type-of", "value")
    /\ ArgValue(req.args, 0, "value").tag = "Function"
    /\ out = OkVal(Ident("function", "None"))

\* the result r is a string value holding the empty string
EmptyString(r) == r.ok /\ r.val.tag = "Ident" /\ r.val.a = ""

\* C14: for a dimension x, unitless(x) is true exactly when unit(x) is the
\* empty string, and unit(x) evaluated twice gives equal strings; for a value
\* that is no dimension, unitless is true and unit fails with a type error.
C14_UnitlessIffEmptyUnit ==
    /\ OneArg("unitless", "number") =>
        LET x == ArgValue(req.args, 0, "number")
        IN  IF x.tag = "Dimension"
                THEN /\ out \in {OkVal(VTrue), OkVal(VFalse)}
                     /\ out = OkVal(VTrue) <=> EmptyString(BuiltinUnit(req.args))
                ELSE out = OkVal(VTrue)
    /\ OneArg("unit", "number") =>
        LET x == ArgValue(req.args, 0, "number")
        IN  IF x.tag = "Dimension"
                THEN /\ out.ok
                     /\ out.val.tag = "Ident"
                     /\ EmptyString(out) <=> BuiltinUnitless(req.args) = OkVal(VTrue)
                     /\ phase = "again" => again = out
                ELSE /\ ~out.ok
                     /\ out.msg = <<"$number:", x, "is not a number.">>
                     /\ BuiltinUnitless(req.args) = OkVal(VTrue)

\* unit of a dimension without a unit was evaluated twice and was the empty
\* string both times
C14_Witness ==
    /\ OneArg("unit", "number")
    /\ phase = "again"
    /\ ArgValue(req.args, 0, "number").tag = "Dimension"
    /\ ArgValue(req.args, 0, "number").b = "None"
    /\ EmptyString(out)
    /\ again = out

\* the result of unit for its one argument: the unit's name as a string of
\* quote kind q for a dimension, the type error for any other value
UnitResult(q) ==
    LET x == ArgValue(req.args, 0, "number")
    IN  IF x.tag = "Dimension"
            THEN /\ out.ok
                 /\ out.val.tag = "Ident"
                 /\ out.val.a = (IF x.b = "None" THEN "" ELSE x.b)
                 /\ out.val.b = q
            ELSE out = Error(<<"$number:", x, "is not a number.">>)

\* C15 as stated: unit of a dimension is a string holding the unit's name
\* with quote kind None; unit of any other value v fails with
\* `$number: <v> is not a number.`.
C15_UnitUnquoted == OneArg("unit", "number") => UnitResult("None")

\* C15: unit of a dimension is a string holding the unit's name with quote
\* kind Double, unlike the results of type-of, whose quote kind is None; unit
\* of any other value v fails with `$number: <v> is not a number.`.
C15_UnitQuoted == OneArg("unit", "number") => UnitResult("Double")

\* unit of a dimension in px returned the double-quoted string px
C15_Witness ==
    /\ OneArg("unit", "number")
    /\ ArgValue(req.args, 0, "number") = Dimension("1", "px")
    /\ out = OkVal(Ident("px", "Double"))

\* if was evaluated
IfEvaluated == phase \in {"builtin", "again"} /\ req.name = "if"

\* C16: if with at most 3 arguments returns the if-true argument when the
\* condition is neither False nor Null and the if-false argument otherwise,
\* whether or not the other branch's argument is there; with more than 3
\* arguments it returns the arity error.
C16_IfSelects ==
    IfEvaluated =>
        IF ArgsLen(req.args) > 3
            THEN out = Error(<<"Only", 3, "arguments allowed, but",
                               ArgsLen(req.args), "were passed.">>)
        ELSE ArgPresent(req.args, 0, "condition") =>
            LET c == ArgValue(req.args, 0, "condition")
            IN  IF c \notin {VFalse, VNull}
                    THEN ArgPresent(req.args, 1, "if-true") =>
                            out = OkVal(ArgValue(req.args, 1, "if-true"))
                    ELSE ArgPresent(req.args, 2, "if-false") =>
                            out = OkVal(ArgValue(req.args, 2, "if-false"))

\* if returned the if-true argument for a condition that is a number, with
\* no if-false argument passed
C16_Witness ==
    /\ IfEvaluated
    /\ ArgPresent(req.args, 0, "condition")
    /\ ArgValue(req.args, 0, "condition").tag = "Dimension"
    /\ ArgPresent(req.args, 1, "if-true")
    /\ ~ArgPresent(req.args, 2, "if-false")
    /\ out = OkVal(ArgValue(req.args, 1, "if-true"))

EscapeReturned == pc = "done" /\ escRet = "top" /\ buf # <<>>

\* C18: when the first character after the backslash is a hex digit,
\* peek_escape consumes the maximal run of k hex digits, 1 <= k <= 6, the
\* value is the big-endian base-16 number of those digits, and one whitespace
\* character after the run is consumed: the lookahead has moved by k, or by
\* k + 1 with a terminator.  When the first character is no hex digit and no
\* newline, the value is its codepoint and the lookahead has moved by 1.
C18_EscapeConsumes ==
    EscapeReturned =>
        IF IsAsciiHexdigit(buf[1])
            THEN LET k == HexRun(buf, 6)
                     terminated == k < Len(buf) /\ IsWhitespace(buf[k + 1])
                 IN  /\ k \in 1..6
                     /\ value = HexNumber(SubSeq(buf, 1, k))
                     /\ lookahead = IF terminated THEN k + 1 ELSE k
        ELSE buf[1] # Newline => (value = buf[1] /\ lookahead = 1)

\* of the seven hex digits "0000011" six were consumed, the seventh was left
C18_Witness ==
    /\ EscapeReturned
    /\ buf = <<48, 48, 48, 48, 48, 49, 49>>
    /\ lookahead = 6
    /\ value = 1
    /\ result.kind = "ok"

\* C19: throughout a run of peek_ident_no_interpolation, escapes included,
\* the committed position stays where it was at the start, and it is never
\* beyond the lookahead position.
C19_LookaheadOnly == cursor = 0 /\ cursor <= lookahead

\* how far the scan is from its end within one lookahead position
Rank ==
    CASE pc = "ident" -> 8
      [] pc = "first" -> 7
      [] pc = "esc" -> 6
      [] pc = "eschex" -> 5
      [] pc = "escenc" -> 4
      [] pc = "escret" -> 3
      [] pc = "body" -> 2
      [] pc = "bodyret" -> 1
      [] OTHER -> 0

\* the characters left to look at, then the rank
Variant == (Len(buf) - lookahead) * 16 + Rank

\* one step of the scan: the variant decreases and stays non-negative, the
\* lookahead never moves back, and a step of the body loop leaves the loop
\* or moves the lookahead on
Progress ==
    /\ Variant' < Variant
    /\ Variant' >= 0
    /\ lookahead' >= lookahead
    /\ pc = "body" => (pc' \in {"bodyret", "done"} \/ lookahead' > lookahead)

\* C20: the identifier scanner terminates on every finite input, in both
\* modes: a step of the body loop leaves the loop or moves the lookahead on,
\* every step decreases a non-negative variant, and the scan eventually
\* returns, with an identifier or with an error.
C20_Terminates ==
    /\ [][Progress]_vars
    /\ <>(pc = "done" /\ result.kind \in {"ok", "err"})

====
